---- MODULE Spec2Model ----
(***************************************************************************)
(* A model of the recipe wiki of src/wiki.go: the page store (save, load,  *)
(* rename-on-save), the process-wide page index, the recipe parser and the *)
(* wiki-link rewriting.                                                    *)
(*                                                                         *)
(* A Go string is modelled as a sequence of one-character strings, so that *)
(* strings.Replace, strings.Split, filepath.Join, the regular expressions  *)
(* and the byte-wise string comparison are computed as the code computes   *)
(* them.                                                                   *)
(***************************************************************************)
EXTENDS Integers, Sequences, FiniteSets, TLC

VARIABLES
    files,      \* the file system: cleaned path -> file content
    pages,      \* var pages Pages, the process-wide index
    pc,         \* position of every request handler goroutine
    req,        \* the request every goroutine is serving
    loc,        \* the locals of every goroutine
    resp,       \* the response every goroutine has produced
    nreq,       \* number of requests accepted so far
    pIngredients, pInstructions, pContent, pResult, pStage, pCycles,
                \* the recipe round trip: form texts, stored content, parse
    mPre, mTitle, mPost, mResult, mStage
                \* the markup pass: text around one wiki link, and its result

vars == <<files, pages, pc, req, loc, resp, nreq,
          pIngredients, pInstructions, pContent, pResult, pStage, pCycles,
          mPre, mTitle, mPost, mResult, mStage>>

storeVars == <<files, pages, pc, req, loc, resp, nreq>>
parseVars == <<pIngredients, pInstructions, pContent, pResult, pStage, pCycles>>
markupVars == <<mPre, mTitle, mPost, mResult, mStage>>

(***************************************************************************)
(* Strings                                                                 *)
(***************************************************************************)

\* The byte value of the characters the model uses.
Code(c) ==
    CASE c = "\n" -> 10  [] c = " " -> 32  [] c = "!" -> 33  [] c = "\"" -> 34
      [] c = "-" -> 45   [] c = "." -> 46  [] c = "/" -> 47  [] c = "<" -> 60
      [] c = "=" -> 61   [] c = ">" -> 62  [] c = "H" -> 72  [] c = "I" -> 73
      [] c = "[" -> 91   [] c = "]" -> 93  [] c = "a" -> 97  [] c = "b" -> 98
      [] c = "c" -> 99   [] c = "d" -> 100 [] c = "e" -> 101 [] c = "f" -> 102
      [] c = "g" -> 103  [] c = "h" -> 104 [] c = "i" -> 105 [] c = "m" -> 109
      [] c = "n" -> 110  [] c = "o" -> 111 [] c = "p" -> 112 [] c = "r" -> 114
      [] c = "s" -> 115  [] c = "t" -> 116 [] c = "u" -> 117 [] c = "v" -> 118
      [] c = "w" -> 119  [] c = "x" -> 120

\* Go's s < t on strings: byte-wise lexicographic order.
RECURSIVE StrLess(_, _)
StrLess(s, t) ==
    IF t = <<>> THEN FALSE
    ELSE IF s = <<>> THEN TRUE
    ELSE IF Head(s) = Head(t) THEN StrLess(Tail(s), Tail(t))
    ELSE Code(Head(s)) < Code(Head(t))

\* strings.HasPrefix
HasPrefix(s, prefix) ==
    /\ Len(s) >= Len(prefix)
    /\ SubSeq(s, 1, Len(prefix)) = prefix

\* strings.Replace(s, old, new, -1) for a non-empty old: every
\* non-overlapping occurrence, left to right.
RECURSIVE Replace(_, _, _)
Replace(s, old, new) ==
    IF s = <<>> THEN <<>>
    ELSE IF HasPrefix(s, old)
         THEN new \o Replace(SubSeq(s, Len(old) + 1, Len(s)), old, new)
         ELSE <<Head(s)>> \o Replace(Tail(s), old, new)

\* strings.Split(s, sep) for a one-character sep: always at least one field.
RECURSIVE Split(_, _)
Split(s, sep) ==
    IF \A i \in 1..Len(s) : s[i] # sep THEN <<s>>
    ELSE LET k == CHOOSE i \in 1..Len(s) :
                      s[i] = sep /\ \A j \in 1..(i - 1) : s[j] # sep
         IN <<SubSeq(s, 1, k - 1)>> \o Split(SubSeq(s, k + 1, Len(s)), sep)

RECURSIVE Concat(_)
Concat(ss) == IF ss = <<>> THEN <<>> ELSE Head(ss) \o Concat(Tail(ss))

Txt == <<".", "t", "x", "t">>

\* var rootTitle string = "Home"
rootTitle == <<"H", "o", "m", "e">>

\* var pagesDir string = "pages"
pagesDir == <<"p", "a", "g", "e", "s">>

(***************************************************************************)
(* Page store: title <-> filename                                          *)
(***************************************************************************)

convertTitleToFilename(title) == Replace(title, <<" ">>, <<"-">>)

convertFilenameToTitle(filename) == Replace(filename, <<"-">>, <<" ">>)

\* [-a-zA-Z0-9], the character class of validPath.
SlugChar(c) == c \in {"-", "H", "a", "b", "e", "m", "o", "x"}

\* validPath, "^/(edit|save|view)/([-a-zA-Z0-9]+)$", applied to the part of
\* the URL path after the handler prefix.
validPath(title) ==
    /\ Len(title) >= 1
    /\ \A i \in 1..Len(title) : SlugChar(title[i])

\* filepath.Clean of a relative path, as the sequence of its components:
\* empty and "." components are dropped, ".." removes the component before
\* it, or stays when there is none to remove.
RECURSIVE CleanComponents(_, _)
CleanComponents(comps, out) ==
    IF comps = <<>> THEN out
    ELSE LET c == Head(comps) IN
         IF c = <<>> \/ c = <<".">> THEN CleanComponents(Tail(comps), out)
         ELSE IF c = <<".", ".">>
              THEN IF out # <<>> /\ out[Len(out)] # <<".", ".">>
                   THEN CleanComponents(Tail(comps), SubSeq(out, 1, Len(out) - 1))
                   ELSE CleanComponents(Tail(comps), Append(out, c))
              ELSE CleanComponents(Tail(comps), Append(out, c))

\* filepath.Join(pagesDir, file): the two joined by a separator, cleaned.
Join(dir, file) == CleanComponents(Split(dir \o <<"/">> \o file, "/"), <<>>)

PagePath(file) == Join(pagesDir, file \o Txt)

(***************************************************************************)
(* Recipe serialisation and parsing                                        *)
(***************************************************************************)

IngredientsSentinel ==
    <<"<", "!", "-", "-", " ", "I", "n", "g", "r", "e", "d", "i", "e", "n",
      "t", "s", " ", "-", "-", ">">>

InstructionsSentinel ==
    <<"<", "!", "-", "-", " ", "I", "n", "s", "t", "r", "u", "c", "t", "i",
      "o", "n", "s", " ", "-", "-", ">">>

\* SaveBody with the newline after the ingredients sentinel left out of the
\* format string.
SaveBodyUnterminatedSentinel(ingredients, instructions) ==
    IngredientsSentinel \o ingredients \o <<"\n">>
        \o InstructionsSentinel \o <<"\n">> \o instructions

\* The body Page.save formats.
SaveBody(ingredients, instructions) ==
    IngredientsSentinel \o <<"\n">> \o ingredients \o <<"\n">>
        \o InstructionsSentinel \o <<"\n">> \o instructions

\* The loop of parseRecipe over the lines from index i on.
RECURSIVE ParseLines(_, _, _, _, _, _)
ParseLines(lines, i, inIngredients, inInstructions, ingredients, instructions) ==
    IF i > Len(lines)
    THEN [panic |-> FALSE, ingredients |-> ingredients,
          instructions |-> instructions]
    ELSE LET line == lines[i] IN
         IF line = IngredientsSentinel
         THEN ParseLines(lines, i + 1, TRUE, FALSE, ingredients, instructions)
         ELSE IF line = InstructionsSentinel
         THEN ParseLines(lines, i + 1, FALSE, TRUE, ingredients, instructions)
         ELSE IF inIngredients
         THEN ParseLines(lines, i + 1, inIngredients, inInstructions,
                         ingredients \o line \o <<"\n">>, instructions)
         ELSE IF inInstructions
         THEN ParseLines(lines, i + 1, inIngredients, inInstructions,
                         ingredients, instructions \o line \o <<"\n">>)
         ELSE [panic |-> TRUE, ingredients |-> ingredients,
               instructions |-> instructions]

parseRecipe(content) ==
    ParseLines(Split(content, "\n"), 1, FALSE, FALSE, <<>>, <<>>)

(***************************************************************************)
(* Markup: wiki links                                                      *)
(***************************************************************************)

\* <a href="/view/NAME">TEXT</a>, the format of the index entries, of the
\* home link and of the wiki-link replacement.
Anchor(name, text) ==
    <<"<", "a", " ", "h", "r", "e", "f", "=", "\"", "/", "v", "i", "e", "w", "/">>
        \o name \o <<"\"", ">">> \o text \o <<"<", "/", "a", ">">>

\* [-a-zA-Z0-9 ], the character class of wikiLink.
LinkChar(c) == SlugChar(c) \/ c = " "

\* Length of the longest run of link characters of text that starts at i.
RECURSIVE LinkRun(_, _)
LinkRun(text, i) ==
    IF i <= Len(text) /\ LinkChar(text[i]) THEN 1 + LinkRun(text, i + 1) ELSE 0

\* Length of the title captured by wikiLink when it matches at i, else 0.
wikiLink(text, i) ==
    LET n == LinkRun(text, i + 2) IN
    IF /\ i + 3 + n <= Len(text)
       /\ text[i] = "[" /\ text[i + 1] = "["
       /\ n >= 1
       /\ text[i + 2 + n] = "]" /\ text[i + 3 + n] = "]"
    THEN n ELSE 0

\* wikiLink.ReplaceAll(text, `<a href="/view/$1">$1</a>`) from index i on.
RECURSIVE ReplaceAllLinks(_, _)
ReplaceAllLinks(text, i) ==
    IF i > Len(text) THEN <<>>
    ELSE LET n == wikiLink(text, i) IN
         IF n > 0
         THEN LET t == SubSeq(text, i + 2, i + 1 + n)
              IN Anchor(t, t) \o ReplaceAllLinks(text, i + 4 + n)
         ELSE <<text[i]>> \o ReplaceAllLinks(text, i + 1)

convertWikiMarkup(text) == ReplaceAllLinks(text, 1)

(***************************************************************************)
(* The recipe round trip: save's serialisation followed by parseRecipe     *)
(***************************************************************************)

MaxTextLen == 2   \* longest plain form text, in characters
MaxLines == 2     \* most lines of one section of a hand-made file
MaxCycles == 2    \* most load-and-save-unchanged cycles

RECURSIVE SeqsUpTo(_, _)
SeqsUpTo(S, n) ==
    IF n = 0 THEN {<<>>}
    ELSE LET shorter == SeqsUpTo(S, n - 1)
         IN shorter \cup {Append(s, c) : s \in shorter, c \in S}

\* The texts a form submits: plain ones, and ones holding a sentinel line.
FormTexts ==
    SeqsUpTo({"a", "\n"}, MaxTextLen)
        \cup {IngredientsSentinel, InstructionsSentinel \o <<"\n", "a">>}

\* The sections of a hand-made file: lines, each ended by a newline.
SectionTexts ==
    {Concat([i \in 1..Len(ls) |-> ls[i] \o <<"\n">>]) :
        ls \in SeqsUpTo({<<>>, <<"a">>}, MaxLines)}

\* A stored file: sentinel line, section, sentinel line, section.
FileContent(ingredients, instructions) ==
    IngredientsSentinel \o <<"\n">> \o ingredients
        \o InstructionsSentinel \o <<"\n">> \o instructions

\* Files that were not written by save: any lines, joined by newlines.
RECURSIVE JoinLines(_)
JoinLines(ls) ==
    IF ls = <<>> THEN <<>>
    ELSE IF Len(ls) = 1 THEN ls[1]
    ELSE ls[1] \o <<"\n">> \o JoinLines(Tail(ls))

ForeignContents ==
    {JoinLines(ls) :
        ls \in SeqsUpTo({<<>>, <<"a">>, IngredientsSentinel,
                         InstructionsSentinel}, MaxLines)}

ContainsSentinelLine(text) ==
    \E i \in 1..Len(Split(text, "\n")) :
        Split(text, "\n")[i] \in {IngredientsSentinel, InstructionsSentinel}

NoResult == [panic |-> FALSE, ingredients |-> <<>>, instructions |-> <<>>]

ParseInit ==
    /\ pCycles = 0
    /\ pResult = NoResult
    /\ \/ /\ pStage = "form"
          /\ pIngredients \in FormTexts
          /\ pInstructions \in FormTexts
          /\ pContent = <<>>
       \/ /\ pStage = "file"
          /\ pIngredients \in SectionTexts
          /\ pInstructions \in SectionTexts
          /\ pContent = FileContent(pIngredients, pInstructions)
       \/ /\ pStage = "foreign"
          /\ pIngredients = <<>>
          /\ pInstructions = <<>>
          /\ pContent \in ForeignContents

\* Page.save of the submitted form.
PSave ==
    /\ pStage = "form"
    /\ pContent' = SaveBody(pIngredients, pInstructions)
    /\ pStage' = "saved"
    /\ UNCHANGED <<pIngredients, pInstructions, pResult, pCycles>>
    /\ UNCHANGED <<storeVars, markupVars>>

\* loadPage of the stored content.
PLoad ==
    /\ pStage \in {"saved", "file", "foreign"}
    /\ pResult' = parseRecipe(pContent)
    /\ pStage' = CASE pStage = "saved" -> "loaded"
                   [] pStage = "file" -> "fileLoaded"
                   [] OTHER -> "foreignLoaded"
    /\ UNCHANGED <<pIngredients, pInstructions, pContent, pCycles>>
    /\ UNCHANGED <<storeVars, markupVars>>

\* The edit form is filled from the loaded page and submitted unchanged.
PResubmit ==
    /\ pStage \in {"loaded", "fileLoaded"}
    /\ ~pResult.panic
    /\ pCycles < MaxCycles
    /\ pCycles' = pCycles + 1
    /\ pIngredients' = pResult.ingredients
    /\ pInstructions' = pResult.instructions
    /\ pStage' = "form"
    /\ UNCHANGED <<pContent, pResult>>
    /\ UNCHANGED <<storeVars, markupVars>>

(***************************************************************************)
(* The markup pass on a text holding one wiki link                         *)
(***************************************************************************)

MaxLinkLen == 3   \* longest wiki-link title, in characters

\* Titles made of letters, digits, spaces and hyphens.
LinkTitles == SeqsUpTo({"a", "b", " ", "-"}, MaxLinkLen) \ {<<>>}

\* Text without a wiki link, before and after the link.
TextsBefore == {<<>>, <<"x">>, <<"[">>, <<"x", " ">>}
TextsAfter == {<<>>, <<"x">>, <<"]">>, <<" ", "x">>}

WikiLinkOf(title) == <<"[", "[">> \o title \o <<"]", "]">>

MarkupInit ==
    /\ mPre \in TextsBefore
    /\ mTitle \in LinkTitles
    /\ mPost \in TextsAfter
    /\ mResult = <<>>
    /\ mStage = "raw"

\* convertWikiMarkup applied to the text.
MConvert ==
    /\ mStage = "raw"
    /\ mResult' = convertWikiMarkup(mPre \o WikiLinkOf(mTitle) \o mPost)
    /\ mStage' = "done"
    /\ UNCHANGED <<mPre, mTitle, mPost>>
    /\ UNCHANGED <<storeVars, parseVars>>

(***************************************************************************)
(* The page index                                                          *)
(***************************************************************************)

\* The elements of a finite set of strings, in ascending order.
RECURSIVE SortedSeq(_)
SortedSeq(S) ==
    IF S = {} THEN <<>>
    ELSE LET m == CHOOSE x \in S : \A y \in S \ {x} : StrLess(x, y)
         IN <<m>> \o SortedSeq(S \ {m})

\* ioutil.ReadDir(pagesDir): the names of the entries of the pages
\* directory, sorted by filename.
ReadDir(fs) ==
    SortedSeq({path[2] : path \in {q \in DOMAIN fs :
                                       Len(q) = 2 /\ q[1] = pagesDir}})

\* The loop of updateIndex over the directory entries from index i on.
RECURSIVE IndexUrls(_, _)
IndexUrls(dirs, i) ==
    IF i > Len(dirs) THEN <<>>
    ELSE IF ~HasPrefix(dirs[i], <<".">>)
         THEN LET name == Replace(dirs[i], Txt, <<>>) IN
              IF name = rootTitle THEN IndexUrls(dirs, i + 1)
              ELSE <<Anchor(name, convertFilenameToTitle(name))>>
                       \o IndexUrls(dirs, i + 1)
         ELSE IndexUrls(dirs, i + 1)

\* Pages.Less
Less(p, i, j) ==
    IF p[i] = <<"H", "o", "m", "e">> THEN TRUE
    ELSE IF p[j] = <<"H", "o", "m", "e">> THEN FALSE
    ELSE StrLess(p[i], p[j])

\* Pages.Swap
Swap(p, i, j) == [p EXCEPT ![i] = p[j], ![j] = p[i]]

\* sort.Sort(urls) as an insertion sort driven by Less and Swap: element i
\* is moved down while it is less than its predecessor.
RECURSIVE SinkDown(_, _)
SinkDown(p, j) ==
    IF j > 1 /\ Less(p, j, j - 1) THEN SinkDown(Swap(p, j, j - 1), j - 1)
    ELSE p

RECURSIVE SortPages(_, _)
SortPages(p, i) ==
    IF i > Len(p) THEN p ELSE SortPages(SinkDown(p, i), i + 1)

\* The home link of updateIndex.
home == Anchor(rootTitle, rootTitle)

\* The sorted urls updateIndex computes from the directory.
SortedUrls(fs) == SortPages(IndexUrls(ReadDir(fs), 1), 2)

\* updateIndex run without interference: the value it leaves in pages.
updateIndex(fs) == <<home>> \o SortedUrls(fs)

(***************************************************************************)
(* The file system                                                         *)
(***************************************************************************)

\* The directories that exist: the working directory, its ancestors and
\* the pages directory (func init creates it).
DirExists(path) ==
    \/ path = <<pagesDir>>
    \/ \A i \in 1..Len(path) : path[i] = <<".", ".">>

FileExists(fs, path) == path \in DOMAIN fs

ParentOf(path) == SubSeq(path, 1, Len(path) - 1)

\* ioutil.WriteFile: the ways it can end. Opening fails when the directory
\* of the file does not exist, and may fail for other reasons; a write that
\* fails after the file was opened leaves the file truncated.
WriteOutcomes(path) ==
    IF DirExists(ParentOf(path)) THEN {"ok", "openFailed", "writeFailed"}
    ELSE {"openFailed"}

WriteFile(fs, path, body, outcome) ==
    CASE outcome = "ok" -> [q \in DOMAIN fs \cup {path} |->
                               IF q = path THEN body ELSE fs[q]]
      [] outcome = "writeFailed" -> [q \in DOMAIN fs \cup {path} |->
                               IF q = path THEN <<>> ELSE fs[q]]
      [] OTHER -> fs

\* os.Remove of an existing file.
RemoveFile(fs, path) == [q \in DOMAIN fs \ {path} |-> fs[q]]

(***************************************************************************)
(* Requests                                                                *)
(***************************************************************************)

NumProcs == 2       \* request handlers that can run at the same time
MaxRequests == 2    \* requests accepted in one run

Procs == 1..NumProcs

\* The title part of the request paths a client sends.
RequestTitles ==
    {rootTitle, <<"a">>, <<"a", "-", "b">>, <<"a", " ", "b">>}

\* The recipeTitle values a save form submits.
FormTitles ==
    {rootTitle, <<"a">>, <<"a", " ", "b">>, <<"a", "!">>, <<>>,
     <<".", "/", "a">>, <<"a", "/", "b">>, <<".", ".", "/", "a">>,
     rootTitle \o Txt}

FormIngredients == {<<"a">>, <<"b">>}
FormInstructions == {<<"x">>}

\* The files found in the pages directory when the program starts.
StoredNames == {rootTitle \o Txt, <<"a">> \o Txt, <<"a", " ", "b">> \o Txt}

StoredBody == FileContent(<<"a", "\n">>, <<"x", "\n">>)

InitialDirs ==
    {[path \in {<<pagesDir, n>> : n \in names} |-> StoredBody] :
        names \in SUBSET StoredNames}

NoRequest ==
    [kind |-> "none", title |-> <<>>, recipeTitle |-> <<>>,
     ingredients |-> <<>>, instructions |-> <<>>]

NoLocals ==
    [filename |-> <<>>, oldExisted |-> FALSE, written |-> FALSE,
     removed |-> FALSE, urls |-> <<>>, appendArg |-> <<>>,
     pagesBefore |-> <<>>]

NoResponse == [code |-> 0, location |-> <<>>]

\* A handler that panics: net/http recovers, the request gets no response.
Panicked == [code |-> -1, location |-> <<>>]

StoreInit ==
    /\ files \in InitialDirs
    /\ pages = updateIndex(files)
    /\ pc = [p \in Procs |-> "idle"]
    /\ req = [p \in Procs |-> NoRequest]
    /\ loc = [p \in Procs |-> NoLocals]
    /\ resp = [p \in Procs |-> NoResponse]
    /\ nreq = 0

Respond(p, r) ==
    /\ resp' = [resp EXCEPT ![p] = r]
    /\ pc' = [pc EXCEPT ![p] = "done"]

\* makeHandler: a request arrives; a path validPath rejects is answered
\* with 404, another one is handed to its handler.
Accept(p, kind, title, recipeTitle, ingredients, instructions) ==
    /\ pc[p] = "idle"
    /\ nreq < MaxRequests
    /\ nreq' = nreq + 1
    /\ req' = [req EXCEPT ![p] =
                  [kind |-> kind, title |-> title, recipeTitle |-> recipeTitle,
                   ingredients |-> ingredients, instructions |-> instructions]]
    /\ IF validPath(title)
       THEN /\ pc' = [pc EXCEPT ![p] = kind]
            /\ resp' = [resp EXCEPT ![p] = NoResponse]
       ELSE Respond(p, [code |-> 404, location |-> <<>>])
    /\ loc' = [loc EXCEPT ![p] = [NoLocals EXCEPT
                  !.oldExisted = FileExists(files, PagePath(title)),
                  !.pagesBefore = pages]]
    /\ UNCHANGED <<files, pages>>
    /\ UNCHANGED <<parseVars, markupVars>>

AcceptSave(p) ==
    \E title \in RequestTitles, recipeTitle \in FormTitles,
       ingredients \in FormIngredients, instructions \in FormInstructions :
        Accept(p, "save", title, recipeTitle, ingredients, instructions)

\* The save requests of the runs with concurrent handlers.
ConcurrentTitles == {<<"a">>, rootTitle}
ConcurrentFormTitles == {<<"a">>, <<"b">>}

AcceptConcurrentSave(p) ==
    \E title \in ConcurrentTitles, recipeTitle \in ConcurrentFormTitles :
        Accept(p, "save", title, recipeTitle, <<"a">>, <<"x">>)

AcceptView(p) ==
    \E title \in RequestTitles : Accept(p, "view", title, <<>>, <<>>, <<>>)

AcceptEdit(p) ==
    \E title \in RequestTitles : Accept(p, "edit", title, <<>>, <<>>, <<>>)

\* ioutil.ReadFile: "ok", "notExist" or, when reading fails for another
\* reason, "failed".
ReadOutcomes(fs, path) ==
    IF FileExists(fs, path) THEN {"ok", "failed"} ELSE {"notExist"}

\* viewHandler. The home page goes to rootHandler, which uses the page
\* loadRoot returns without looking at the error: a nil page panics.
\* Another page is loaded by loadPage: any error redirects to the edit
\* form, and parseRecipe panics on a line before the first sentinel.
ViewHandler(p) ==
    /\ pc[p] = "view"
    /\ \E outcome \in ReadOutcomes(files, PagePath(req[p].title)) :
        IF req[p].title = rootTitle
        THEN IF outcome = "ok"
             THEN Respond(p, [code |-> 200, location |-> <<>>])
             ELSE Respond(p, Panicked)
        ELSE IF outcome # "ok"
             THEN Respond(p, [code |-> 302,
                              location |-> <<"/", "e", "d", "i", "t", "/">>
                                               \o req[p].title])
             ELSE IF parseRecipe(files[PagePath(req[p].title)]).panic
                  THEN Respond(p, Panicked)
                  ELSE Respond(p, [code |-> 200, location |-> <<>>])
    /\ UNCHANGED <<files, pages, req, loc, nreq>>
    /\ UNCHANGED <<parseVars, markupVars>>

\* editHandler: a page that does not load is replaced by an empty one.
EditHandler(p) ==
    /\ pc[p] = "edit"
    /\ \E outcome \in ReadOutcomes(files, PagePath(req[p].title)) :
        IF outcome = "ok" /\ parseRecipe(files[PagePath(req[p].title)]).panic
        THEN Respond(p, Panicked)
        ELSE Respond(p, [code |-> 200, location |-> <<>>])
    /\ UNCHANGED <<files, pages, req, loc, nreq>>
    /\ UNCHANGED <<parseVars, markupVars>>

(***************************************************************************)
(* saveHandler, one step per file-system call and per access to pages      *)
(***************************************************************************)

OldFile(p) == PagePath(req[p].title)

ViewLocation(filename) == <<"/", "v", "i", "e", "w", "/">> \o filename

\* SaveWrite without the check of the error p.save() returns: the handler
\* goes on to the rename and the index after a failed write.
SaveWriteIgnoringError(p) ==
    /\ pc[p] = "save"
    /\ LET filename == convertTitleToFilename(req[p].recipeTitle)
           path == PagePath(filename)
           body == SaveBody(req[p].ingredients, req[p].instructions)
       IN \E outcome \in WriteOutcomes(path) :
            /\ files' = WriteFile(files, path, body, outcome)
            /\ loc' = [loc EXCEPT ![p].filename = filename,
                                  ![p].written = (outcome = "ok")]
            /\ pc' = [pc EXCEPT ![p] =
                         IF filename # req[p].title THEN "stat" ELSE "readdir"]
            /\ UNCHANGED resp
    /\ UNCHANGED <<pages, req, nreq>>
    /\ UNCHANGED <<parseVars, markupVars>>

\* p.save(): the page file is written; an error is answered with 500.
SaveWrite(p) ==
    /\ pc[p] = "save"
    /\ LET filename == convertTitleToFilename(req[p].recipeTitle)
           path == PagePath(filename)
           body == SaveBody(req[p].ingredients, req[p].instructions)
       IN \E outcome \in WriteOutcomes(path) :
            /\ files' = WriteFile(files, path, body, outcome)
            /\ loc' = [loc EXCEPT ![p].filename = filename,
                                  ![p].written = (outcome = "ok")]
            /\ IF outcome # "ok"
               THEN Respond(p, [code |-> 500, location |-> <<>>])
               ELSE /\ pc' = [pc EXCEPT ![p] =
                                IF filename # req[p].title THEN "stat"
                                ELSE "readdir"]
                    /\ UNCHANGED resp
    /\ UNCHANGED <<pages, req, nreq>>
    /\ UNCHANGED <<parseVars, markupVars>>

\* os.Stat(oldfile) of a rename.
SaveStat(p) ==
    /\ pc[p] = "stat"
    /\ pc' = [pc EXCEPT ![p] =
                 IF FileExists(files, OldFile(p)) THEN "remove" ELSE "readdir"]
    /\ UNCHANGED <<files, pages, req, loc, resp, nreq>>
    /\ UNCHANGED <<parseVars, markupVars>>

\* os.Remove(oldfile); an error panics. Besides a file that is gone, the
\* removal can fail for another reason.
SaveRemove(p) ==
    /\ pc[p] = "remove"
    /\ \E failed \in BOOLEAN :
        IF failed \/ ~FileExists(files, OldFile(p))
        THEN /\ Respond(p, Panicked)
             /\ UNCHANGED <<files, loc>>
        ELSE /\ files' = RemoveFile(files, OldFile(p))
             /\ loc' = [loc EXCEPT ![p].removed = TRUE]
             /\ pc' = [pc EXCEPT ![p] = "readdir"]
             /\ UNCHANGED resp
    /\ UNCHANGED <<pages, req, nreq>>
    /\ UNCHANGED <<parseVars, markupVars>>

\* updateIndex: the directory is read and the sorted urls are built in the
\* local slice urls. (A failing ReadDir, which panics, is not modelled.)
IndexReadDir(p) ==
    /\ pc[p] = "readdir"
    /\ loc' = [loc EXCEPT ![p].urls = SortedUrls(files)]
    /\ pc' = [pc EXCEPT ![p] = "make"]
    /\ UNCHANGED <<files, pages, req, resp, nreq>>
    /\ UNCHANGED <<parseVars, markupVars>>

\* pages = make([]template.HTML, 1)
IndexMake(p) ==
    /\ pc[p] = "make"
    /\ pages' = <<<<>>>>
    /\ pc' = [pc EXCEPT ![p] = "setHome"]
    /\ UNCHANGED <<files, req, loc, resp, nreq>>
    /\ UNCHANGED <<parseVars, markupVars>>

\* pages[0] = home
IndexSetHome(p) ==
    /\ pc[p] = "setHome"
    /\ pages' = [pages EXCEPT ![1] = home]
    /\ pc' = [pc EXCEPT ![p] = "appendRead"]
    /\ UNCHANGED <<files, req, loc, resp, nreq>>
    /\ UNCHANGED <<parseVars, markupVars>>

\* pages = append(pages, urls...): pages is read ... (The three stores of
\* updateIndex into pages are not synchronised; the steps interleave them
\* as whole reads and writes of the slice.)
IndexAppendRead(p) ==
    /\ pc[p] = "appendRead"
    /\ loc' = [loc EXCEPT ![p].appendArg = pages]
    /\ pc' = [pc EXCEPT ![p] = "appendWrite"]
    /\ UNCHANGED <<files, pages, req, resp, nreq>>
    /\ UNCHANGED <<parseVars, markupVars>>

\* ... and the extended slice is stored.
IndexAppendWrite(p) ==
    /\ pc[p] = "appendWrite"
    /\ pages' = loc[p].appendArg \o loc[p].urls
    /\ pc' = [pc EXCEPT ![p] = "redirect"]
    /\ UNCHANGED <<files, req, loc, resp, nreq>>
    /\ UNCHANGED <<parseVars, markupVars>>

\* http.Redirect(w, r, "/view/"+filename, http.StatusFound)
SaveRedirect(p) ==
    /\ pc[p] = "redirect"
    /\ Respond(p, [code |-> 302, location |-> ViewLocation(loc[p].filename)])
    /\ UNCHANGED <<files, pages, req, loc, nreq>>
    /\ UNCHANGED <<parseVars, markupVars>>

\* The handler has returned; the goroutine serves the next request.
Finish(p) ==
    /\ pc[p] = "done"
    /\ pc' = [pc EXCEPT ![p] = "idle"]
    /\ req' = [req EXCEPT ![p] = NoRequest]
    /\ loc' = [loc EXCEPT ![p] = NoLocals]
    /\ resp' = [resp EXCEPT ![p] = NoResponse]
    /\ UNCHANGED <<files, pages, nreq>>
    /\ UNCHANGED <<parseVars, markupVars>>

\* saveHandler after the request was accepted.
SaveSteps(p) ==
    \/ SaveWrite(p)
    \/ SaveStat(p)
    \/ SaveRemove(p)
    \/ IndexReadDir(p)
    \/ IndexMake(p)
    \/ IndexSetHome(p)
    \/ IndexAppendRead(p)
    \/ IndexAppendWrite(p)
    \/ SaveRedirect(p)
    \/ Finish(p)

Step(p) ==
    \/ AcceptSave(p)
    \/ AcceptView(p)
    \/ AcceptEdit(p)
    \/ ViewHandler(p)
    \/ EditHandler(p)
    \/ SaveSteps(p)

ConcurrentStep(p) ==
    \/ AcceptConcurrentSave(p)
    \/ SaveSteps(p)

(***************************************************************************)
(* Specifications                                                          *)
(***************************************************************************)

ParseIdle ==
    /\ pIngredients = <<>> /\ pInstructions = <<>> /\ pContent = <<>>
    /\ pResult = NoResult /\ pStage = "off" /\ pCycles = 0

MarkupIdle ==
    /\ mPre = <<>> /\ mTitle = <<>> /\ mPost = <<>>
    /\ mResult = <<>> /\ mStage = "off"

StoreIdle ==
    /\ files = <<>> /\ pages = <<home>>
    /\ pc = [p \in Procs |-> "off"]
    /\ req = [p \in Procs |-> NoRequest]
    /\ loc = [p \in Procs |-> NoLocals]
    /\ resp = [p \in Procs |-> NoResponse]
    /\ nreq = 0

\* The server with save requests handled concurrently.
Init == StoreInit /\ ParseIdle /\ MarkupIdle

Next == \E p \in Procs : ConcurrentStep(p)

Spec == Init /\ [][Next]_vars

\* The server when requests do not overlap: one handler at a time.
SeqNext == Step(1)

SeqSpec == Init /\ [][SeqNext]_vars

\* The recipe round trip.
ParseSpecInit == ParseInit /\ StoreIdle /\ MarkupIdle

ParseNext == PSave \/ PLoad \/ PResubmit

ParseSpec == ParseSpecInit /\ [][ParseNext]_vars

\* The markup pass.
MarkupSpecInit == MarkupInit /\ StoreIdle /\ ParseIdle

MarkupNext == MConvert

MarkupSpec == MarkupSpecInit /\ [][MarkupNext]_vars

(***************************************************************************)
(* Properties                                                              *)
(***************************************************************************)

SaveCompleted(p) ==
    pc[p] = "done" /\ req[p].kind = "save" /\ resp[p].code = 302

\* C1: a completed save addressed to slug OLD whose filename differs from
\* OLD leaves OLD.txt absent, removed iff it existed before, leaves the
\* saved content in the file of the new filename, and leaves exactly one of
\* the two files; a save whose filename equals OLD deletes nothing.
RenameOnSave ==
    \A p \in Procs :
        SaveCompleted(p) =>
            LET old == PagePath(req[p].title)
                new == PagePath(loc[p].filename)
            IN IF loc[p].filename # req[p].title
               THEN /\ ~FileExists(files, old)
                    /\ loc[p].removed = loc[p].oldExisted
                    /\ FileExists(files, new)
                    /\ files[new] = SaveBody(req[p].ingredients,
                                             req[p].instructions)
                    /\ Cardinality({old, new} \cap DOMAIN files) = 1
               ELSE ~loc[p].removed

\* C2: for form texts without a sentinel line, parsing what save wrote
\* returns exactly the texts that were submitted.
RoundTrip ==
    (/\ pStage = "loaded"
     /\ ~ContainsSentinelLine(pIngredients)
     /\ ~ContainsSentinelLine(pInstructions))
        => pResult = [panic |-> FALSE, ingredients |-> pIngredients,
                      instructions |-> pInstructions]

\* The text of an anchor: what stands between the first "> and the final </a>.
RECURSIVE AnchorText(_)
AnchorText(a) ==
    IF Len(a) < 6 THEN <<>>
    ELSE IF HasPrefix(a, <<"\"", ">">>) THEN SubSeq(a, 3, Len(a) - 4)
    ELSE AnchorText(Tail(a))

\* No handler is between the first and the last store of updateIndex.
IndexStored == \A p \in Procs : pc[p] \notin {"setHome", "appendRead", "appendWrite"}

\* C3: the index updateIndex produces has the home link first and the other
\* entries in ascending byte-wise order of their display titles.
IndexOrdering ==
    IndexStored =>
        /\ pages[1] = home
        /\ \A i, j \in 2..Len(pages) :
               i < j => ~StrLess(AnchorText(pages[j]), AnchorText(pages[i]))

\* The files of the pages directory that are neither dotfiles nor the file
\* of the home page.
ListedFiles ==
    {n \in {path[2] : path \in {q \in DOMAIN files :
                                    Len(q) = 2 /\ q[1] = pagesDir}} :
        ~HasPrefix(n, <<".">>) /\ n # rootTitle \o Txt}

\* C4: when requests do not overlap, after a completed save the index is
\* the home link, once, followed by exactly one entry for every file of the
\* pages directory that is neither a dotfile nor the home page's file.
IndexFreshness ==
    \A p \in Procs :
        SaveCompleted(p) =>
            /\ pages[1] = home
            /\ \A i \in 2..Len(pages) : pages[i] # home
            /\ Len(pages) = 1 + Cardinality(ListedFiles)

\* C5: a view request is redirected to the edit form exactly when the file
\* of the page does not exist, and a missing file never ends in a server
\* error or in a panic of the handler.
MissingPageHandling ==
    \A p \in Procs :
        (pc[p] = "done" /\ req[p].kind = "view" /\ resp[p].code # 404) =>
            LET missing == ~FileExists(files, PagePath(req[p].title))
                toEdit == [code |-> 302,
                           location |-> <<"/", "e", "d", "i", "t", "/">>
                                            \o req[p].title]
            IN /\ (resp[p] = toEdit) <=> missing
               /\ missing => resp[p].code \notin {-1, 500}

\* C6: [[T]] becomes an anchor whose href is /view/ followed by the slug of
\* T and whose text is T, the text around it is unchanged, and the slug is a
\* path validPath accepts.
WikiLinkRewriting ==
    mStage = "done" =>
        /\ mResult = mPre \o Anchor(convertTitleToFilename(mTitle), mTitle)
                         \o mPost
        /\ \A name \in LinkTitles :
               mResult = mPre \o Anchor(name, mTitle) \o mPost
                   => validPath(name)

\* C7: for a file made of the ingredients sentinel line, ingredient lines,
\* the instructions sentinel line and instruction lines, every line ended
\* by a newline, parseRecipe returns exactly the two sections.
ParserResult ==
    pStage = "fileLoaded" =>
        pResult = [panic |-> FALSE, ingredients |-> pIngredients,
                   instructions |-> pInstructions]

\* C8: a save that attempts the removal of an old file that is already gone
\* does not panic: it goes on to rebuild the index.
RenameDeletionTolerant ==
    [][\A p \in Procs :
          (pc[p] = "remove" /\ ~FileExists(files, OldFile(p))
              /\ pc'[p] # "remove")
            => (resp'[p] # Panicked /\ pc'[p] = "readdir")]_vars

AllFinished == \A p \in Procs : pc[p] \in {"idle", "done"}

\* C9: once all concurrent saves have finished, the index is the home link,
\* once, followed by the sorted entries of one single rebuild, with no
\* entry twice.
LastRebuildWins ==
    AllFinished =>
        /\ pages[1] = home
        /\ \A i, j \in 1..Len(pages) : i # j => pages[i] # pages[j]
        /\ \A i, j \in 2..Len(pages) : i < j => StrLess(pages[i], pages[j])

SaveFailed(p) ==
    pc[p] = "done" /\ req[p].kind = "save" /\ validPath(req[p].title)
        /\ ~loc[p].written

\* C10: a save whose write fails answers 500, leaves the old file in place
\* and the index as it was, and does not redirect; an old file is removed
\* only after the new file was written.
FailedSaveChangesNothingElse ==
    \A p \in Procs :
        /\ SaveFailed(p) =>
              /\ resp[p] = [code |-> 500, location |-> <<>>]
              /\ loc[p].oldExisted => FileExists(files, OldFile(p))
              /\ ~loc[p].removed
              /\ pages = loc[p].pagesBefore
        /\ loc[p].removed => loc[p].written

\* A save of a renamed page failed while the old file existed.
FailedSaveWitness ==
    \E p \in Procs :
        /\ SaveFailed(p)
        /\ loc[p].oldExisted
        /\ loc[p].filename # req[p].title

\* The first line of a content: what stands before its first newline.
RECURSIVE FirstLine(_)
FirstLine(content) ==
    IF content = <<>> \/ Head(content) = "\n" THEN <<>>
    ELSE <<Head(content)>> \o FirstLine(Tail(content))

\* C11: loading a file save wrote never reaches the panic of parseRecipe,
\* whatever the submitted texts, because its first line is the ingredients
\* sentinel; a load panics only on a file save did not write, and exactly
\* when the first line of that file is not a sentinel.
SavedPagesAlwaysLoad ==
    /\ pStage = "loaded" =>
          /\ ~pResult.panic
          /\ FirstLine(pContent) = IngredientsSentinel
    /\ pStage = "fileLoaded" => ~pResult.panic
    /\ pStage = "foreignLoaded" =>
          (pResult.panic <=>
              FirstLine(pContent) \notin {IngredientsSentinel,
                                          InstructionsSentinel})

\* A form whose ingredients hold a sentinel line was saved and loaded.
SavedSentinelTextLoaded ==
    /\ pStage = "loaded"
    /\ ContainsSentinelLine(pIngredients)
    /\ pInstructions # <<>>

\* C12: every file a save writes and every file it removes is a direct
\* child of the pages directory whose name is the slug followed by .txt,
\* the slug being non-empty, without a path separator and not starting
\* with a dot; after a completed save the page is listed in the index and
\* its slug is a path validPath accepts.
StorageConfinement ==
    \A p \in Procs :
        LET slug == loc[p].filename IN
        /\ loc[p].written =>
              /\ PagePath(slug) = <<pagesDir, slug \o Txt>>
              /\ slug # <<>>
              /\ \A i \in 1..Len(slug) : slug[i] # "/"
              /\ ~HasPrefix(slug \o Txt, <<".">>)
        /\ loc[p].removed =>
              OldFile(p) = <<pagesDir, req[p].title \o Txt>>
        /\ SaveCompleted(p) =>
              /\ validPath(slug)
              /\ \E i \in 1..Len(pages) :
                     pages[i] = Anchor(slug, convertFilenameToTitle(slug))

====
